---- MODULE Spec2Model ----
(***************************************************************************)
(* Model of the `deploy` command line tool (src/src/main.rs): one run of   *)
(* `main`, from the credential lookup to the process exit, with the        *)
(* GitHub deployment API, the local git repository and the spinner as the  *)
(* environment.                                                            *)
(***************************************************************************)
EXTENDS Integers, Sequences, FiniteSets, TLC

VARIABLES
    pc,         \* position of main
    token,      \* Option: env::var("GITHUB_TOKEN").ok()
    opt,        \* the command line, as structopt hands it to main (struct Opt)
    vcs,        \* the local repository: origin URL and HEAD name (git2)
    argsParsed, \* Opt::from_args() has run
    coord,      \* Option<(owner, repository)>
    results,    \* the deployments returned by deployments.list
    git_ref,    \* Option: the ref to deploy
    request,    \* Option: the DeploymentOptions built
    deploy,     \* Option: the Deployment returned by deployments.create
    failures,   \* the consecutive-failure counter of the polling loop
    statuses,   \* Option: the status list of the current loop iteration
    spinner,    \* the ProgressBar: hidden, msg, finished, nfinish, prefix
    printed,    \* lines printed with spinner.println
    calls,      \* how many times each collaborator was called
    queried,    \* the deployment ids the status queries were keyed by
    consec,     \* status queries that failed since the last successful one
    cleared,    \* the value of consec the last successful query found
    exit,       \* Option: the exit code of the process
    error,      \* the anyhow error main returned, "" when none
    url,        \* the remote URL handed to the parser on its own
    parsed      \* Option: what the parser returned for url

vars == <<pc, token, opt, vcs, argsParsed, coord, results, git_ref, request,
          deploy, failures, statuses, spinner, printed, calls, queried,
          consec, cleared, exit, error, url, parsed>>

----------------------------------------------------------------------------
(* Bounds of the model *)

\* longest status list / deployment list the platform answers with
MaxLen == 2
\* the call counters saturate here
MaxCalls == 2

(* Program constants *)

\* `failures == 3` in the polling loop
FailureLimit == 3

----------------------------------------------------------------------------
(* Option<T> as a set with at most one element *)

None == {}
Some(x) == {x}
IsSome(o) == o # {}
Unwrap(o) == CHOOSE x \in o : TRUE

Min(a, b) == IF a < b THEN a ELSE b

\* sequences over S of length 0..n
RECURSIVE SeqsUpTo(_, _)
SeqsUpTo(S, n) ==
    IF n = 0 THEN {<<>>}
    ELSE LET shorter == SeqsUpTo(S, n - 1)
         IN  shorter \cup {Append(s, x) : s \in {t \in shorter : Len(t) = n - 1}, x \in S}

----------------------------------------------------------------------------
(* The data the run works on *)

\* A URL is a sequence of tokens: "git@" or "https://", the host, ":" or "/",
\* then path segments separated by "/" and closed by any number of ".git".
GithubHost == "github.com"

Shorthands == { <<"acme", "/", "widgets">> }

OriginUrls ==
    { <<"git@", "github.com", ":", "acme", "/", "widgets", ".git">>,
      <<"https://", "bitbucket.com", "/", "acme", "/", "widgets", ".git">> }

Refs == {"main"}
HeadNames == {"refs/heads/main"}
Envs == {"staging"}
Shas == {"sha1", "sha2"}
DeploymentIds == {1, 2}

\* statuses::State
States == {"Pending", "Success", "Error", "Failure"}
Descriptions == {None, Some("build failed")}
\* DeploymentStatus, as far as main reads it
DeploymentStatuses == [state : States, description : Descriptions]
\* the lists a status query answers with: any first entry, then older entries
OlderStatuses == [state : States, description : {None}]
StatusLists ==
    {<<>>} \cup {<<first>> \o older : first \in DeploymentStatuses,
                                      older \in SeqsUpTo(OlderStatuses, MaxLen - 1)}

\* Deployment, as far as main reads it
PriorDeployments == [sha : Shas]
DeploymentLists == SeqsUpTo(PriorDeployments, MaxLen)

\* struct Opt; structopt has enforced `requires = "git-ref"` on repository
Opts ==
    { o \in [git_ref : {None} \cup {Some(r) : r \in Refs},
             env : {None} \cup {Some(e) : e \in Envs},
             force : BOOLEAN,
             detached : BOOLEAN,
             quiet : BOOLEAN,
             repository : {None} \cup {Some(s) : s \in Shorthands},
             cmd : {None, Some("Update")}] :
        IsSome(o.repository) => IsSome(o.git_ref) }

\* the working directory: inside a repository or not, its origin remote, the
\* name of its HEAD
Vcs ==
    { v \in [repo : BOOLEAN,
             origin : {None} \cup {Some(u) : u \in OriginUrls},
             head : {None} \cup {Some(h) : h \in HeadNames}] :
        ~v.repo => (v.origin = None /\ v.head = None) }

\* Result<T>
Ok(v) == [ok |-> TRUE, val |-> v]
Err(e) == [ok |-> FALSE, err |-> e]

\* The remote URLs the parser is tried on by itself: both styles, three hosts,
\* paths of one, two and three segments, closed by no, one or two ".git".
Hosts == {"github.com", "bitbucket.com", "gitlab.com"}
Owners == {"keelerm84", "acme"}
Names == {"deploy", "widgets"}

DotGits(k) == [i \in 1..k |-> ".git"]
SshUrl(host, path, k) == <<"git@", host, ":">> \o path \o DotGits(k)
HttpsUrl(host, path, k) == <<"https://", host, "/">> \o path \o DotGits(k)

Paths ==
    {<<n>> : n \in Names}
    \cup {<<o, "/", n>> : o \in Owners, n \in Names}
    \cup {<<"group", "/", o, "/", n>> : o \in Owners, n \in Names}

RemoteUrls ==
    {SshUrl(h, p, k) : h \in Hosts, p \in Paths, k \in 0..2}
    \cup {HttpsUrl(h, p, k) : h \in Hosts, p \in Paths, k \in 0..2}

----------------------------------------------------------------------------
(* The errors main returns *)

MissingCredential == "Missing GITHUB_TOKEN. Please set this environment variable."
RepositoryErrors ==
    { "url parse error", "Host could not be determined or is not a GitHub remote",
      "Cannot access local repository", "remote origin not found" }
RefErrors == { "could not find repository", "Unable to determine HEAD of repository" }
ListError == "Unable to get a list of deployments"
CreationError == "Could not create the specified deployment"
StatusCheckError == "Failed to check deployment status. Exiting."

----------------------------------------------------------------------------
(* parse_owner_and_name_from_remote_url and the resolvers *)

\* the path with its trailing ".git" removed (trim_end_matches)
RECURSIVE TrimDotGit(_)
TrimDotGit(p) ==
    IF p # <<>> /\ p[Len(p)] = ".git" THEN TrimDotGit(SubSeq(p, 1, Len(p) - 1))
    ELSE p

\* the path split at "/"
RECURSIVE SplitPath(_)
SplitPath(p) ==
    IF \E i \in 1..Len(p) : p[i] = "/"
    THEN LET i == CHOOSE j \in 1..Len(p) : p[j] = "/" /\ \A k \in 1..(j - 1) : p[k] # "/"
         IN  <<SubSeq(p, 1, i - 1)>> \o SplitPath(SubSeq(p, i + 1, Len(p)))
    ELSE <<p>>

\* GitUrl::parse: host, owner (the segment before the last) and name (the last
\* segment without ".git")
GitUrlParse(remote) ==
    IF /\ Len(remote) >= 4
       /\ \/ remote[1] = "git@" /\ remote[3] = ":"
          \/ remote[1] = "https://" /\ remote[3] = "/"
    THEN LET segs == SplitPath(TrimDotGit(SubSeq(remote, 4, Len(remote))))
             n == Len(segs)
         IN  Ok([host |-> Some(remote[2]),
                 owner |-> IF n >= 2 THEN Some(segs[n - 1]) ELSE None,
                 name |-> segs[n]])
    ELSE Err("url parse error")

\* (owner and name handed back in the wrong order)
parse_name_and_owner_from_remote_url(remote) ==
    LET git_url == GitUrlParse(remote)
    IN  IF ~git_url.ok THEN git_url
        ELSE IF /\ IsSome(git_url.val.host)
                /\ Unwrap(git_url.val.host) = GithubHost
                /\ IsSome(git_url.val.owner)
             THEN Ok(<<git_url.val.name, Unwrap(git_url.val.owner)>>)
             ELSE Err("Host could not be determined or is not a GitHub remote")

\* (the host never compared)
parse_owner_and_name_from_any_host(remote) ==
    LET git_url == GitUrlParse(remote)
    IN  IF ~git_url.ok THEN git_url
        ELSE IF IsSome(git_url.val.host) /\ IsSome(git_url.val.owner)
             THEN Ok(<<Unwrap(git_url.val.owner), git_url.val.name>>)
             ELSE Err("Host could not be determined or is not a GitHub remote")

parse_owner_and_name_from_remote_url(remote) ==
    LET git_url == GitUrlParse(remote)
    IN  IF ~git_url.ok THEN git_url
        ELSE IF /\ IsSome(git_url.val.host)
                /\ Unwrap(git_url.val.host) = GithubHost
                /\ IsSome(git_url.val.owner)
             THEN Ok(<<Unwrap(git_url.val.owner), git_url.val.name>>)
             ELSE Err("Host could not be determined or is not a GitHub remote")

determine_repository_string(repository, v) ==
    IF IsSome(repository)
    THEN parse_owner_and_name_from_remote_url(
             <<"https://", "github.com", "/">> \o Unwrap(repository))
    ELSE IF ~v.repo THEN Err("Cannot access local repository")
    ELSE IF v.origin = None THEN Err("remote origin not found")
    ELSE parse_owner_and_name_from_remote_url(Unwrap(v.origin))

determine_current_branch(v) ==
    IF ~v.repo THEN Err("could not find repository")
    ELSE IF v.head = None THEN Err("Unable to determine HEAD of repository")
    ELSE Ok(Unwrap(v.head))

----------------------------------------------------------------------------
(* The request builder and the classification of a status list *)

\* (the force flag never reaching the builder)
BuildDeploymentOptionsForceIgnored(ref, env, force) ==
    [git_ref |-> ref,
     auto_merge |-> Some(FALSE),
     environment |-> Some(env),
     description |-> Some("A practice deployment from the rust version of deploy"),
     required_contexts |-> None]

\* DeploymentOptions::builder(git_ref) ... builder.build()
BuildDeploymentOptions(ref, env, force) ==
    [git_ref |-> ref,
     auto_merge |-> Some(FALSE),
     environment |-> Some(env),
     description |-> Some("A practice deployment from the rust version of deploy"),
     required_contexts |-> IF force = TRUE THEN Some(<<>>) ELSE None]

\* (the oldest entry read in place of the most recent)
LastStatus(s) == s[Len(s)]

\* statuses.first()
FirstStatus(s) == s[1]

\* status.description.clone().unwrap_or_else(|| "No description given".into())
DescriptionOrDefault(status) ==
    IF IsSome(status.description) THEN Unwrap(status.description)
    ELSE "No description given"

\* (the description dropped from the message)
ErrorMessageWithoutDescription(status) ==
    <<"Build finished with error. ", "No description given">>

\* format!("Build finished with error. {}", ...)
ErrorMessage(status) == <<"Build finished with error. ", DescriptionOrDefault(status)>>

\* (an empty list taken for the end of the deployment)
EmptyStepStops ==
    [msg |-> <<"Waiting for deployments to begin">>, finish |-> FALSE, continue |-> FALSE]

\* what the loop does with an empty status list: the message it hands to the
\* spinner, whether it finishes the spinner and whether the loop goes on
EmptyStep ==
    [msg |-> <<"Waiting for deployments to begin">>, finish |-> FALSE, continue |-> TRUE]

\* (Success reported as progress, the loop going on)
StatusStepSuccessContinues(status) ==
    CASE status.state = "Pending" ->
           [msg |-> <<"Deploying">>, finish |-> FALSE, continue |-> TRUE]
      [] status.state = "Error" ->
           [msg |-> ErrorMessage(status), finish |-> TRUE, continue |-> FALSE]
      [] status.state = "Success" ->
           [msg |-> <<"Done!">>, finish |-> FALSE, continue |-> TRUE]
      [] status.state = "Failure" ->
           [msg |-> ErrorMessage(status), finish |-> TRUE, continue |-> FALSE]

\* (the `break` after the match missing)
StatusStepWithoutBreak(status) ==
    CASE status.state = "Pending" ->
           [msg |-> <<"Deploying">>, finish |-> FALSE, continue |-> TRUE]
      [] status.state = "Error" ->
           [msg |-> ErrorMessage(status), finish |-> TRUE, continue |-> TRUE]
      [] status.state = "Success" ->
           [msg |-> <<"Done!">>, finish |-> TRUE, continue |-> TRUE]
      [] status.state = "Failure" ->
           [msg |-> ErrorMessage(status), finish |-> TRUE, continue |-> TRUE]

\* match status.state { ... }
StatusStep(status) ==
    CASE status.state = "Pending" ->
           [msg |-> <<"Deploying">>, finish |-> FALSE, continue |-> TRUE]
      [] status.state = "Error" ->
           [msg |-> ErrorMessage(status), finish |-> TRUE, continue |-> FALSE]
      [] status.state = "Success" ->
           [msg |-> <<"Done!">>, finish |-> TRUE, continue |-> FALSE]
      [] status.state = "Failure" ->
           [msg |-> ErrorMessage(status), finish |-> TRUE, continue |-> FALSE]

\* what one iteration of the loop does with a successfully fetched status list
PollStep(s) == IF s = <<>> THEN EmptyStep ELSE StatusStep(FirstStatus(s))

\* the retry policy of the loop
RetriesExhausted(f) == f = FailureLimit
\* (a failed query not counted)
FailuresNotCounted(f) == f
\* (the counter wrapping around before it reaches the threshold)
FailuresWrapped(f) == (f + 1) % FailureLimit
FailuresAfterFailure(f) == f + 1
\* (a loop that forgets `failures = 0`)
FailuresKept(f) == f
FailuresAfterSuccess(f) == 0

----------------------------------------------------------------------------
(* The run *)

Init ==
    /\ pc = "start"
    /\ token \in {None, Some("secret")}
    /\ opt \in Opts
    /\ vcs \in Vcs
    /\ argsParsed = FALSE
    /\ coord = None
    /\ results = None
    /\ git_ref = None
    /\ request = None
    /\ deploy = None
    /\ failures = 0
    /\ statuses = None
    /\ spinner = None
    /\ printed = <<>>
    /\ calls = [vcs |-> 0, list |-> 0, create |-> 0, statuses |-> 0, update |-> 0]
    /\ queried = {}
    /\ consec = 0
    /\ cleared = 0
    /\ exit = None
    /\ error = ""
    /\ url = <<>>
    /\ parsed = None

Bump(c, what) == [c EXCEPT ![what] = Min(@ + 1, MaxCalls)]

\* main returns Ok(())
ReturnOk ==
    /\ pc' = "exit"
    /\ exit' = Some(0)
    /\ error' = ""

\* main returns Err(e)
ReturnErr(e) ==
    /\ pc' = "exit"
    /\ exit' = Some(1)
    /\ error' = e

\* a panic unwinds main
Panic(e) ==
    /\ pc' = "exit"
    /\ exit' = Some(101)
    /\ error' = e

Goto(l) ==
    /\ pc' = l
    /\ UNCHANGED <<exit, error>>

inputs == <<token, opt, vcs>>
polling == <<failures, statuses, queried, consec, cleared>>
parsing == <<url, parsed>>

\* (a main that reads the token only after parsing the arguments)
CheckTokenSkipped ==
    /\ pc = "start"
    /\ Goto("args")
    /\ UNCHANGED <<inputs, parsing, argsParsed, coord, results, git_ref, request, deploy,
                   polling, spinner, printed, calls>>

\* match env::var("GITHUB_TOKEN").ok()
CheckToken ==
    /\ pc = "start"
    /\ IF IsSome(token) THEN Goto("args")
       ELSE ReturnErr(MissingCredential)
    /\ UNCHANGED <<inputs, parsing, argsParsed, coord, results, git_ref, request, deploy,
                   polling, spinner, printed, calls>>

\* let opt = Opt::from_args()
ParseArgs ==
    /\ pc = "args"
    /\ argsParsed' = TRUE
    /\ Goto(IF IsSome(opt.cmd) THEN "update" ELSE "client")
    /\ UNCHANGED <<inputs, parsing, coord, results, git_ref, request, deploy, polling,
                   spinner, printed, calls>>

\* Command::Update: the self update succeeds or fails
SelfUpdate(ok) ==
    /\ pc = "update"
    /\ calls' = Bump(calls, "update")
    /\ IF ok THEN ReturnOk ELSE ReturnErr("self update failed")
    /\ UNCHANGED <<inputs, parsing, argsParsed, coord, results, git_ref, request, deploy,
                   polling, spinner, printed>>

\* Github::new(...) and the spinner
CreateClient(ok) ==
    /\ pc = "client"
    /\ IF ok
       THEN /\ spinner' = Some([hidden |-> opt.quiet, msg |-> <<>>, finished |-> FALSE,
                                nfinish |-> 0, prefix |-> None])
            /\ Goto("repo")
       ELSE /\ spinner' = spinner
            /\ ReturnErr("Unable to create Github client.")
    /\ UNCHANGED <<inputs, parsing, argsParsed, coord, results, git_ref, request, deploy,
                   polling, printed, calls>>

\* let (owner, repository) = determine_repository_string(opt.repository)?
DetermineRepository ==
    /\ pc = "repo"
    /\ LET r == determine_repository_string(opt.repository, vcs)
       IN  /\ calls' = IF IsSome(opt.repository) THEN calls ELSE Bump(calls, "vcs")
           /\ IF r.ok THEN coord' = Some(r.val) /\ Goto("listopts")
              ELSE coord' = coord /\ ReturnErr(r.err)
    /\ UNCHANGED <<inputs, parsing, argsParsed, results, git_ref, request, deploy, polling,
                   spinner, printed>>

\* DeploymentListOptions::builder().environment(opt.env.clone().unwrap()):
\* unwrap panics without --env
BuildListOptions ==
    /\ pc = "listopts"
    /\ IF IsSome(opt.env) THEN Goto("list")
       ELSE Panic("called Option::unwrap on a None value")
    /\ UNCHANGED <<inputs, parsing, argsParsed, coord, results, git_ref, request, deploy,
                   polling, spinner, printed, calls>>

\* (a list error swallowed: .unwrap_or_default() in place of `?`)
ListFailedTolerated ==
    /\ pc = "list"
    /\ calls' = Bump(calls, "list")
    /\ results' = Some(<<>>)
    /\ Goto("ref")
    /\ UNCHANGED <<inputs, parsing, argsParsed, coord, git_ref, request, deploy, polling,
                   spinner, printed>>

\* deployments.list(list_options).await.context(...)?
ListFailed ==
    /\ pc = "list"
    /\ calls' = Bump(calls, "list")
    /\ ReturnErr(ListError)
    /\ UNCHANGED <<inputs, parsing, argsParsed, coord, results, git_ref, request, deploy,
                   polling, spinner, printed>>

ListOk(ds) ==
    /\ pc = "list"
    /\ calls' = Bump(calls, "list")
    /\ results' = Some(ds)
    /\ Goto("ref")
    /\ UNCHANGED <<inputs, parsing, argsParsed, coord, git_ref, request, deploy, polling,
                   spinner, printed>>

\* let git_ref = match opt.git_ref { ... None => determine_current_branch()? }
ResolveRef ==
    /\ pc = "ref"
    /\ IF IsSome(opt.git_ref)
       THEN /\ git_ref' = opt.git_ref
            /\ calls' = calls
            /\ Goto("compare")
       ELSE LET b == determine_current_branch(vcs)
            IN  /\ calls' = Bump(calls, "vcs")
                /\ IF b.ok THEN git_ref' = Some(b.val) /\ Goto("compare")
                   ELSE git_ref' = git_ref /\ ReturnErr(b.err)
    /\ UNCHANGED <<inputs, parsing, argsParsed, coord, results, request, deploy, polling,
                   spinner, printed>>

\* format!("See commit difference at https://github.com/{}/{}/compare/{}...{}")
CompareLine(c, ref, sha) == <<"See commit difference at", c[1], c[2], ref, sha>>

\* spinner.println: nothing is drawn on a hidden bar
Println(line) == IF Unwrap(spinner).hidden THEN printed ELSE Append(printed, line)

\* if !results.is_empty() { for d in results { println; break } }: the loop
\* consumes results
PrintCompare ==
    /\ pc = "compare"
    /\ LET ds == Unwrap(results)
       IN  printed' = IF ds # <<>>
                      THEN Println(CompareLine(Unwrap(coord), Unwrap(git_ref), ds[1].sha))
                      ELSE printed
    /\ results' = None
    /\ Goto("build")
    /\ UNCHANGED <<inputs, parsing, argsParsed, coord, git_ref, request, deploy, polling,
                   spinner, calls>>

\* the builder, with required_contexts when opt.force
BuildRequest ==
    /\ pc = "build"
    /\ request' = Some(BuildDeploymentOptions(Unwrap(git_ref), Unwrap(opt.env), opt.force))
    /\ Goto("create")
    /\ UNCHANGED <<inputs, parsing, argsParsed, coord, results, git_ref, deploy, polling,
                   spinner, printed, calls>>

SetMessage(sp, m) == Some([Unwrap(sp) EXCEPT !.msg = m])
FinishWithMessage(sp, m) ==
    Some([Unwrap(sp) EXCEPT !.msg = m, !.finished = TRUE, !.nfinish = Min(@ + 1, MaxCalls)])

\* (a failed creation tried again)
CreateFailedRetried ==
    /\ pc = "create"
    /\ spinner' = SetMessage(spinner, <<"Triggering deployment">>)
    /\ calls' = Bump(calls, "create")
    /\ Goto("create")
    /\ UNCHANGED <<inputs, parsing, argsParsed, coord, results, git_ref, request, deploy,
                   polling, printed>>

\* spinner.set_message("Triggering deployment"); deployments.create(...)?
CreateFailed ==
    /\ pc = "create"
    /\ spinner' = SetMessage(spinner, <<"Triggering deployment">>)
    /\ calls' = Bump(calls, "create")
    /\ ReturnErr(CreationError)
    /\ UNCHANGED <<inputs, parsing, argsParsed, coord, results, git_ref, request, deploy,
                   polling, printed>>

\* ... the deployment created, and its environment and id in the template
CreateOk(id) ==
    /\ pc = "create"
    /\ calls' = Bump(calls, "create")
    /\ LET d == [id |-> id, environment |-> Unwrap(Unwrap(request).environment)]
       IN  /\ deploy' = Some(d)
           /\ spinner' = Some([Unwrap(spinner) EXCEPT
                                  !.msg = <<"Triggering deployment">>,
                                  !.prefix = Some(<<d.environment, d.id>>)])
    /\ Goto("detached")
    /\ UNCHANGED <<inputs, parsing, argsParsed, coord, results, git_ref, request, polling,
                   printed>>

\* (the detached flag ignored)
CheckDetachedIgnored ==
    /\ pc = "detached"
    /\ Goto("poll") /\ failures' = 0
    /\ UNCHANGED <<inputs, parsing, argsParsed, coord, results, git_ref, request, deploy,
                   statuses, queried, consec, cleared, spinner, printed, calls>>

\* if opt.detached { return Ok(()) }; let mut failures: i32 = 0
CheckDetached ==
    /\ pc = "detached"
    /\ IF opt.detached THEN ReturnOk /\ failures' = failures
       ELSE Goto("poll") /\ failures' = 0
    /\ UNCHANGED <<inputs, parsing, argsParsed, coord, results, git_ref, request, deploy,
                   statuses, queried, consec, cleared, spinner, printed, calls>>

\* (the status query keyed by another deployment)
OtherDeploymentId == CHOOSE i \in DeploymentIds : i # Unwrap(deploy).id

\* deployments.statuses(deploy.id)
StatusQueryKey == Unwrap(deploy).id

\* the top of one iteration of the loop, the status query failing:
\* sleep; if let Ok(s) = ... else if failures == 3 { return Err } else { ... }
QueryFailed ==
    /\ pc = "poll"
    /\ calls' = Bump(calls, "statuses")
    /\ queried' = queried \cup {StatusQueryKey}
    /\ consec' = Min(consec + 1, FailureLimit + MaxCalls)
    /\ IF RetriesExhausted(failures)
       THEN /\ failures' = failures
            /\ ReturnErr(StatusCheckError)
       ELSE /\ failures' = FailuresAfterFailure(failures)
            /\ Goto("poll")
    /\ UNCHANGED <<inputs, parsing, argsParsed, coord, results, git_ref, request, deploy,
                   statuses, cleared, spinner, printed>>

\* the top of one iteration of the loop, the status query answering s:
\* statuses = s; failures = 0
QueryOk(s) ==
    /\ pc = "poll"
    /\ calls' = Bump(calls, "statuses")
    /\ queried' = queried \cup {StatusQueryKey}
    /\ cleared' = consec
    /\ consec' = 0
    /\ statuses' = Some(s)
    /\ failures' = FailuresAfterSuccess(failures)
    /\ Goto("classify")
    /\ UNCHANGED <<inputs, parsing, argsParsed, coord, results, git_ref, request, deploy,
                   spinner, printed>>

\* the rest of the iteration, on the status list s: the spinner told, then
\* `continue` (statuses goes out of scope) or `break; Ok(())`
ClassifyList(s) ==
    /\ pc = "classify"
    /\ LET step == PollStep(s)
       IN  /\ spinner' = IF step.finish THEN FinishWithMessage(spinner, step.msg)
                         ELSE SetMessage(spinner, step.msg)
           /\ IF step.continue THEN Goto("poll") /\ statuses' = None
              ELSE ReturnOk /\ statuses' = statuses
    /\ UNCHANGED <<inputs, parsing, argsParsed, coord, results, git_ref, request, deploy,
                   failures, queried, consec, cleared, printed, calls>>

Classify == ClassifyList(Unwrap(statuses))

Next ==
    \/ CheckToken
    \/ ParseArgs
    \/ \E ok \in BOOLEAN : SelfUpdate(ok)
    \/ \E ok \in BOOLEAN : CreateClient(ok)
    \/ DetermineRepository
    \/ BuildListOptions
    \/ ListFailed
    \/ \E ds \in DeploymentLists : ListOk(ds)
    \/ ResolveRef
    \/ PrintCompare
    \/ BuildRequest
    \/ CreateFailed
    \/ \E id \in DeploymentIds : CreateOk(id)
    \/ CheckDetached
    \/ QueryFailed
    \/ \E s \in StatusLists : QueryOk(s)
    \/ Classify

Spec == Init /\ [][Next]_vars

\* One command line (--env staging --ref main acme/widgets, with or without
\* the update subcommand), the program always taking its next step and every
\* call to a collaborator returning.
FairInit ==
    /\ Init
    /\ token # None
    /\ opt.git_ref # None /\ opt.env # None /\ opt.repository # None
    /\ ~opt.force /\ ~opt.detached /\ opt.quiet
    /\ ~vcs.repo

FairSpec == FairInit /\ [][Next]_vars /\ WF_vars(Next)

----------------------------------------------------------------------------
(* The parser on its own, as the tests of main.rs call it *)

ParseInit ==
    /\ pc = "parse"
    /\ token = None
    /\ opt = [git_ref |-> None, env |-> None, force |-> FALSE, detached |-> FALSE,
              quiet |-> FALSE, repository |-> None, cmd |-> None]
    /\ vcs = [repo |-> FALSE, origin |-> None, head |-> None]
    /\ argsParsed = FALSE
    /\ coord = None
    /\ results = None
    /\ git_ref = None
    /\ request = None
    /\ deploy = None
    /\ failures = 0
    /\ statuses = None
    /\ spinner = None
    /\ printed = <<>>
    /\ calls = [vcs |-> 0, list |-> 0, create |-> 0, statuses |-> 0, update |-> 0]
    /\ queried = {}
    /\ consec = 0
    /\ cleared = 0
    /\ exit = None
    /\ error = ""
    /\ url \in RemoteUrls
    /\ parsed = None

\* parse_owner_and_name_from_remote_url(url.to_string())
ParseUrl ==
    /\ pc = "parse"
    /\ parsed' = Some(parse_owner_and_name_from_remote_url(url))
    /\ pc' = "parsed"
    /\ UNCHANGED <<inputs, url, argsParsed, coord, results, git_ref, request, deploy,
                   polling, spinner, printed, calls, exit, error>>

ParseNext == ParseUrl

ParseSpec == ParseInit /\ [][ParseNext]_vars

----------------------------------------------------------------------------
(* What the claims speak of *)

NoPlatformCall == calls.list = 0 /\ calls.create = 0 /\ calls.statuses = 0

----------------------------------------------------------------------------
(* The claims *)

\* C1: as soon as the status query has failed 3 times in a row, the run has
\* ended with the fatal status-check error (so no fourth query is attempted).
C1_ThreeFailuresAbort ==
    consec >= 3 => (pc = "exit" /\ exit = Some(1) /\ error = StatusCheckError)

\* C2: a successful status query leaves the consecutive-failure counter at 0
\* whatever it was before; the counter never counts a failure that came before
\* a success; and the run ends with the status-check error only after at least
\* 3 failures in a row.
C2_SuccessResetsCounter ==
    [][/\ (pc = "poll" /\ pc' = "classify") => failures' = 0
       /\ failures' <= consec'
       /\ error' = StatusCheckError => consec' >= 3]_vars

\* two failed queries, then a successful one, and the run goes on with the
\* counter at 0
C2_Witness ==
    cleared = 2 /\ failures = 0 /\ consec = 0 /\ pc = "classify" /\ exit = None

C4_PreconditionAbortBeforeNetwork ==
    (pc = "exit" /\ exit = Some(1)
        /\ error \in {MissingCredential} \cup RepositoryErrors \cup RefErrors)
    => NoPlatformCall

\* C5: in a run without the credential token nothing but the token check
\* ever happens: the arguments are not parsed, no repository or ref is
\* resolved, the local repository is not read, no platform call is made, and
\* the run ends with a non-zero exit.
C5_MissingTokenAbortsFirst ==
    token = None =>
        /\ pc \in {"start", "exit"}
        /\ argsParsed = FALSE /\ coord = None /\ git_ref = None
        /\ calls.vcs = 0 /\ calls.update = 0 /\ NoPlatformCall
        /\ pc = "exit" => (exit = Some(1) /\ error = MissingCredential)

C5_Witness ==
    token = None /\ pc = "exit" /\ exit = Some(1) /\ error = MissingCredential

\* C6: in a detached run whose creation call succeeded, exactly one creation
\* call and no status query has been made, the run is at the detached check or
\* over, and when over it has returned success.
C6_DetachedSkipsPolling ==
    (opt.detached /\ deploy # None) =>
        /\ calls.create = 1
        /\ calls.statuses = 0 /\ queried = {}
        /\ pc \in {"detached", "exit"}
        /\ pc = "exit" => (exit = Some(0) /\ error = "")

C6_Witness ==
    opt.detached /\ deploy # None /\ pc = "exit" /\ exit = Some(0)

\* C7: classifying an empty status list never ends the run: no exit code, no
\* error, the spinner not finished and told "Waiting for deployments to
\* begin", and the run is back at the top of the loop, where every step is a
\* status query for the created deployment.
C7_EmptyListContinues ==
    [][/\ (pc = "classify" /\ statuses = Some(<<>>)) =>
            /\ pc' = "poll" /\ exit' = None /\ error' = ""
            /\ Unwrap(spinner').msg = <<"Waiting for deployments to begin">>
            /\ ~Unwrap(spinner').finished
       /\ pc = "poll" =>
            /\ calls'.statuses = Min(calls.statuses + 1, MaxCalls)
            /\ Unwrap(deploy).id \in queried']_vars

\* an empty list has been classified and the run is about to query again
C7_Witness ==
    /\ pc = "poll" /\ exit = None
    /\ calls.statuses >= 1 /\ consec = 0
    /\ Unwrap(spinner).msg = <<"Waiting for deployments to begin">>

\* C8: the step the poller takes on a non-empty status list is the step it
\* takes on every other non-empty list with the same first entry: same
\* spinner message, same continue-or-stop, same exit.
C8_OnlyFirstEntryRead ==
    [][\A other \in StatusLists :
          (/\ pc = "classify"
           /\ statuses # Some(<<>>)
           /\ other # <<>>
           /\ other[1] = Unwrap(statuses)[1])
          => ClassifyList(other)]_vars

\* a list of two entries that differ in state has ended the run
C8_Witness ==
    /\ pc = "exit" /\ statuses # None
    /\ Len(Unwrap(statuses)) >= 2
    /\ Unwrap(statuses)[2].state # Unwrap(statuses)[1].state
    /\ Unwrap(spinner).finished

\* C9: classifying a status list whose first entry is Error or Failure
\* finishes the spinner once, with "Build finished with error. " followed by
\* the entry's description or "No description given", and ends the run with
\* exit code 0 and no error; nothing happens after the run has ended.
C9_PlatformFailureExitsZero ==
    [][/\ (/\ pc = "classify"
           /\ statuses # Some(<<>>)
           /\ Unwrap(statuses)[1].state \in {"Error", "Failure"}) =>
            LET first == Unwrap(statuses)[1]
            IN  /\ Unwrap(spinner').finished
                /\ Unwrap(spinner').nfinish = 1
                /\ Unwrap(spinner').msg =
                       <<"Build finished with error. ",
                         IF first.description = None THEN "No description given"
                         ELSE Unwrap(first.description)>>
                /\ pc' = "exit" /\ exit' = Some(0) /\ error' = ""
       /\ pc # "exit"]_vars

C9_Witness ==
    /\ pc = "exit" /\ exit = Some(0) /\ statuses # None
    /\ Unwrap(statuses) # <<>>
    /\ Unwrap(statuses)[1] = [state |-> "Failure", description |-> Some("build failed")]
    /\ Unwrap(spinner).msg = <<"Build finished with error. ", "build failed">>
    /\ Unwrap(spinner).finished

\* C10: a deploy run (no subcommand, the client constructed or the token
\* missing) that has ended has exit code 0, or a non-zero exit code with one of
\* the enumerated fatal errors: missing credential, unresolvable repository or
\* ref, creation failure, exhausted status-check retries; and a run that
\* finished the spinner has exit code 0.
C10_ExitStatus ==
    (pc = "exit" /\ opt.cmd = None /\ (token = None \/ spinner # None)) =>
        /\ \/ exit = Some(0)
           \/ /\ exit = Some(1)
              /\ error \in {MissingCredential, CreationError, StatusCheckError}
                             \cup RepositoryErrors \cup RefErrors
        /\ (spinner # None /\ Unwrap(spinner).finished) => exit = Some(0)

\* C11: a failed creation call ends the run at once with the creation error
\* and a non-zero exit; the creation call has been made once (not retried), no
\* deployment is held, no status query has been or will be made.
C11_CreationFailureFatal ==
    [][/\ CreateFailed => (pc' = "exit" /\ exit' = Some(1) /\ error' = CreationError)
       /\ error' = CreationError =>
            (calls'.create = 1 /\ calls'.statuses = 0 /\ queried' = {} /\ deploy' = None)
       /\ error # CreationError]_vars

C11_Witness ==
    /\ pc = "exit" /\ exit = Some(1) /\ error = CreationError
    /\ calls.create = 1 /\ calls.statuses = 0

\* C12: the request that is built and sent has required_contexts present and
\* empty when the force flag is set and absent when it is not; its ref is the
\* resolved ref (the --ref given, else the name of HEAD), its environment the
\* --env given, and auto_merge is false.
C12_RequestFields ==
    request # None =>
        LET r == Unwrap(request)
        IN  /\ opt.force => r.required_contexts = Some(<<>>)
            /\ ~opt.force => r.required_contexts = None
            /\ r.git_ref = Unwrap(git_ref)
            /\ Some(r.git_ref) = (IF opt.git_ref # None THEN opt.git_ref ELSE vcs.head)
            /\ r.environment = opt.env
            /\ r.auto_merge = Some(FALSE)

\* the request of a forced run has been sent
C12_Witness ==
    /\ request # None /\ opt.force /\ calls.create = 1
    /\ Unwrap(request).required_contexts = Some(<<>>)
    /\ Unwrap(request).environment = Some("staging")

\* C15: classifying a list whose first entry is Pending tells the spinner
\* "Deploying" and goes back to the top of the loop with the run not ended;
\* classifying a list whose first entry is Success finishes the spinner, for
\* the first and only time, with "Done!" and ends the run with exit code 0.
C15_PendingThenSuccess ==
    [][(pc = "classify" /\ statuses # Some(<<>>)) =>
          LET first == Unwrap(statuses)[1]
          IN  /\ first.state = "Pending" =>
                    /\ Unwrap(spinner').msg = <<"Deploying">>
                    /\ ~Unwrap(spinner').finished
                    /\ pc' = "poll" /\ exit' = None /\ error' = ""
              /\ first.state = "Success" =>
                    /\ Unwrap(spinner').msg = <<"Done!">>
                    /\ Unwrap(spinner').finished
                    /\ Unwrap(spinner).nfinish = 0 /\ Unwrap(spinner').nfinish = 1
                    /\ pc' = "exit" /\ exit' = Some(0) /\ error' = ""]_vars

\* a Success answer is being classified after a Pending one was reported
C15_Witness ==
    /\ pc = "classify" /\ statuses # Some(<<>>)
    /\ Unwrap(statuses)[1].state = "Success"
    /\ Unwrap(spinner).msg = <<"Deploying">>
    /\ ~Unwrap(spinner).finished

\* C16: once the spinner is finished the run is over: no step follows (no
\* status query, no message), and the spinner was finished exactly once.
C16_NothingAfterTerminal ==
    [][/\ ~(spinner # None /\ Unwrap(spinner).finished)
       /\ (spinner' # None /\ Unwrap(spinner').finished) =>
            (pc' = "exit" /\ Unwrap(spinner').nfinish = 1 /\ calls' = calls)]_vars

C16_Witness ==
    /\ spinner # None /\ Unwrap(spinner).finished /\ Unwrap(spinner).nfinish = 1
    /\ pc = "exit" /\ calls.statuses >= 1

\* C17: a failed status query after which the loop goes on changes the
\* counter by exactly +1 and nothing else of the run: the spinner (its message
\* too), the printed lines, the deployment and the request stay as they were.
C17_FailedQueryRetriedSilently ==
    [][(pc = "poll" /\ pc' = "poll") =>
          /\ failures' = failures + 1
          /\ spinner' = spinner
          /\ UNCHANGED <<printed, statuses, deploy, request, git_ref, coord,
                         results, exit, error>>]_vars

\* one failed query behind, the message of the last classification still shown
C17_Witness ==
    /\ pc = "poll" /\ failures = 1 /\ consec = 1 /\ exit = None
    /\ Unwrap(spinner).msg = <<"Deploying">>

\* C19: the list call and the creation call are each made at most once, the
\* list call only before the creation call; the request is built once, before
\* it is sent; every status query follows a successful creation and is keyed
\* by the id of the deployment that creation returned.
C19_CallOrder ==
    [][/\ calls'.list <= 1 /\ calls'.create <= 1
       /\ calls'.list # calls.list => (calls.list = 0 /\ calls.create = 0)
       /\ calls'.create # calls.create => (calls.list = 1 /\ request # None)
       /\ request' # request => (request = None /\ calls.create = 0)
       /\ calls'.statuses # calls.statuses => (deploy # None /\ calls.create = 1)
       /\ queried' # {} => (deploy' # None /\ queried' = {Unwrap(deploy').id})]_vars

C19_Witness ==
    /\ calls.list = 1 /\ calls.create = 1 /\ calls.statuses >= 1
    /\ deploy # None /\ queried = {Unwrap(deploy).id}

\* C20: the counter is between 0 and 3, it is 0 whenever a status list is
\* being classified, and it equals the number of status queries that have
\* failed since the last successful one (or since polling began).
C20_CounterInvariant ==
    /\ failures \in 0..3
    /\ pc = "classify" => failures = 0
    /\ failures = consec

\* C13: for every owner and name, the remote URLs git@github.com:owner/name.git,
\* git@github.com:owner/name, https://github.com/owner/name.git and
\* https://github.com/owner/name parse to Ok((owner, name)), the .git gone.
C13_GithubRemotesParse ==
    \A o \in Owners, n \in Names, k \in 0..1 :
        (/\ pc = "parsed"
         /\ url \in {SshUrl("github.com", <<o, "/", n>>, k),
                     HttpsUrl("github.com", <<o, "/", n>>, k)})
        => Unwrap(parsed) = Ok(<<<<o>>, <<n>>>>)

C13_Witness ==
    /\ pc = "parsed"
    /\ url = <<"git@", "github.com", ":", "keelerm84", "/", "deploy", ".git">>
    /\ parsed = Some(Ok(<<<<"keelerm84">>, <<"deploy">>>>))

\* C14: a remote URL of either style whose host is not github.com parses to
\* an error, whatever its path.
C14_OtherHostsRejected ==
    (pc = "parsed" /\ url[2] # "github.com") => ~Unwrap(parsed).ok

C14_Witness ==
    /\ pc = "parsed"
    /\ url = <<"https://", "bitbucket.com", "/", "group", "/", "keelerm84", "/", "deploy">>
    /\ parsed # None /\ ~Unwrap(parsed).ok

TerminalStates == {"Success", "Error", "Failure"}

\* C18: the loop is left only by the classification of a list whose first
\* entry is Success, Error or Failure, or by the status-check error; an
\* empty list or a Pending first entry always leads back to the top of the
\* loop, so a platform that answers nothing else is polled forever; and if
\* from some point on every query fails or answers a list with a terminal
\* first entry, the run ends.
C18_NoPollTimeout ==
    /\ [][/\ (pc \in {"poll", "classify"} /\ pc' = "exit") =>
               \/ pc = "poll" /\ error' = StatusCheckError
               \/ /\ pc = "classify" /\ statuses # Some(<<>>)
                  /\ Unwrap(statuses)[1].state \in TerminalStates
          /\ (/\ pc = "classify"
              /\ \/ statuses = Some(<<>>)
                 \/ Unwrap(statuses)[1].state = "Pending") =>
               (pc' = "poll" /\ exit' = None)]_vars
    /\ (<>[][pc = "poll" =>
               \/ pc' # "classify"
               \/ /\ statuses' # Some(<<>>)
                  /\ Unwrap(statuses')[1].state \in TerminalStates]_vars)
       => <>(pc = "exit")

\* the fourth of a row of failed queries, after a Pending answer, has ended
\* the polling
C18_Witness ==
    /\ pc = "exit" /\ error = StatusCheckError /\ consec > 3
    /\ Unwrap(spinner).msg = <<"Deploying">>

====
